---- MODULE Spec2Model ----
(***************************************************************************)
(* Model of pcl::gpu::KinfuTracker (gpu/kinfu/src/kinfu.cpp): the host     *)
(* orchestration of the KinectFusion tracker.                              *)
(*                                                                         *)
(* Lengths are integers in units of 1/51200 m, so that volume_size / 512   *)
(* and 2.1 * cell_size are exact for the volume sizes enumerated below.    *)
(* Rotations are 3x3 integer matrices (quarter turns about the axes), so   *)
(* that the Eigen compositions of the source are computed exactly.         *)
(* Device kernels are abstract: the volume is the list of camera poses it  *)
(* has fused a frame with since it was last initialised, the predicted     *)
(* maps are the description of the kernel call that wrote them last.       *)
(***************************************************************************)
EXTENDS Integers, Sequences, FiniteSets, TLC

(* ------------------------------ bounds -------------------------------- *)
\* frames accepted per session: once global_time_ has reached MaxTime the
\* device only reports systems that fail the nullspace check
MaxTime == 2
\* non-identity ICP increments the device may report within one frame
MaxMoves == 1
\* getCameraPose is called with time in -1 .. MaxTime + TimeSlack
TimeSlack == 1
\* voxels of the volume a TSDF dump is checked on
DumpVoxels == 2
\* resolution of the volume the host-side extraction is checked on, standing
\* in for VOLUME_X, VOLUME_Y, VOLUME_Z
GridX == 3
GridY == 3
GridZ == 2

(* ------------------------- program constants -------------------------- *)
LEVELS == 3
VOLUME_X == 512
VOLUME_Y == 512
VOLUME_Z == 512
\* length units per metre: cell sizes and 2.1 * cell_size stay integral
UnitsPerMetre == 100 * VOLUME_X
\* VOLUME_SIZE = 3.0f metres
VOLUME_SIZE == 153600
\* const float default_tranc_dist = 0.03f
default_tranc_dist == 1536
\* const int iters[] = {10, 5, 4}, indexed by level 0 .. LEVELS-1
icp_iterations_ == [l \in 0..(LEVELS - 1) |-> <<10, 5, 4>>[l + 1]]
\* fabs (det) < 1e-15, det in units of 1e-16
DetThreshold == 10
\* const int DIVISOR = 32767; // SHRT_MAX
DIVISOR == 32767

(* --------------------------- linear algebra --------------------------- *)
Identity == << <<1, 0, 0>>, <<0, 1, 0>>, <<0, 0, 1>> >>
ZeroM == << <<0, 0, 0>>, <<0, 0, 0>>, <<0, 0, 0>> >>
ZeroV == <<0, 0, 0>>

MatMul(A, B) ==
  [i \in 1..3 |-> [j \in 1..3 |-> A[i][1] * B[1][j] + A[i][2] * B[2][j] + A[i][3] * B[3][j]]]

MatVec(A, v) ==
  [i \in 1..3 |-> A[i][1] * v[1] + A[i][2] * v[2] + A[i][3] * v[3]]

VecAdd(u, v) == [i \in 1..3 |-> u[i] + v[i]]

VecSub(u, v) == [i \in 1..3 |-> u[i] - v[i]]

\* cosine and sine of q quarter turns
Cos4(q) == <<1, 0, -1, 0>>[(q % 4) + 1]
Sin4(q) == <<0, 1, 0, -1>>[(q % 4) + 1]

\* AngleAxisf (a, Vector3f::UnitX ()) etc. for a = q quarter turns
AngleAxisX(q) == << <<1, 0, 0>>, <<0, Cos4(q), -Sin4(q)>>, <<0, Sin4(q), Cos4(q)>> >>
AngleAxisY(q) == << <<Cos4(q), 0, Sin4(q)>>, <<0, 1, 0>>, <<-Sin4(q), 0, Cos4(q)>> >>
AngleAxisZ(q) == << <<Cos4(q), -Sin4(q), 0>>, <<Sin4(q), Cos4(q), 0>>, <<0, 0, 1>> >>

Max2(a, b) == IF a >= b THEN a ELSE b

Abs(a) == IF a < 0 THEN -a ELSE a

Last(s) == s[Len(s)]


Transpose(A) == [i \in 1..3 |-> [j \in 1..3 |-> A[j][i]]]

(* ------------------------------- inputs ------------------------------- *)
\* depth frames handed to operator(): two different rows x cols frames (what
\* the kernels make of an empty or wrongly sized map is device code)
DepthMaps == {1, 2}

\* arguments of setVolumeSize: the 3 m cube and a 3 x 3 x 9 m box
VolumeSizes == {<<VOLUME_SIZE, VOLUME_SIZE, VOLUME_SIZE>>, <<VOLUME_SIZE, VOLUME_SIZE, 3 * VOLUME_SIZE>>}

\* arguments of setTsdfTrancationDistance: 0 m, 0.03 m, 0.1 m
Distances == {0, default_tranc_dist, 5120}

\* arguments of setInitalCameraPose
CameraPoses == {[R |-> Identity, t |-> <<76800, 76800, -15360>>], [R |-> AngleAxisY(1), t |-> ZeroV]}

\* arguments of initColorIntegration
MaxWeights == {64}

\* determinant of A as downloaded from the device, in units of 1e-16
Dets == {[nan |-> TRUE, v |-> 0], [nan |-> FALSE, v |-> 0], [nan |-> FALSE, v |-> 1 - DetThreshold], [nan |-> FALSE, v |-> DetThreshold], [nan |-> FALSE, v |-> -DetThreshold]}

\* solutions of A x = b: angles in quarter turns, translation in length units
ZeroResult == [alpha |-> 0, beta |-> 0, gamma |-> 0, tinc |-> ZeroV]
Results == {ZeroResult, [ZeroResult EXCEPT !.gamma = 1, !.tinc = <<0, 0, 15360>>]}

\* what a read of vector storage beyond size () may yield
StaleR == {Identity, ZeroM}
StaleT == {ZeroV}

\* tsdf halves of the voxel words: -1, a negative value, 0, the smallest
\* positive value, and +1, which also marks an unobserved voxel
TsdfShorts == {-DIVISOR, -12000, 0, 1, DIVISOR}

\* weight halves of the voxel words
WeightShorts == {0, 1, 64}

\* a voxel word as short2 sees it: x the low half (tsdf), y the high half (weight)
Words == [x : TsdfShorts, y : WeightShorts]

\* a voxel no frame has been integrated into
Unobserved == [x |-> 0, y |-> 0]

\* the words of the voxels the extraction is checked on: in front of the
\* surface, behind it, behind it with weight 0, on it, and tsdf = DIVISOR
CloudWords == {[x |-> 100, y |-> 1], [x |-> -300, y |-> 1], [x |-> -300, y |-> 0], [x |-> 0, y |-> 1], [x |-> DIVISOR, y |-> 1]}

\* the word of all voxels but two
Backgrounds == {Unobserved, [x |-> 100, y |-> 1]}

(* ------------------------------- state -------------------------------- *)
VARIABLES
  volume_size_, init_Rcam_, init_tcam_, tranc_dist_, max_weight_,
  global_time_, rmats_, tvecs_, volume_, colors_volume_, vmaps_g_prev_,
  pc, call, depth_raw, Rcurr, tcurr, level_index, iter, moves, res,
  last_call, trace,
  voxels, volume, weights, cloud

config == <<volume_size_, init_Rcam_, init_tcam_, tranc_dist_, max_weight_>>
session == <<global_time_, rmats_, tvecs_, volume_, colors_volume_, vmaps_g_prev_>>
locals == <<call, depth_raw, Rcurr, tcurr, level_index, iter, moves, res>>
\* voxels: the words of volume_ as a download delivers them; volume, weights
\* and cloud: the caller's vectors the host-side read-backs fill
host == <<voxels, volume, weights, cloud>>
vars == <<config, session, pc, locals, last_call, trace, host>>

\* one kernel launch or host step of the call in progress
Ev(step) == [step |-> step, level |-> -1, iter |-> -1, R |-> ZeroM, t |-> ZeroV, depth |-> 0, tranc |-> 0, note |-> ""]

\* the API call made last: its name, arguments and result
NoCall == [op |-> "KinfuTracker", depth |-> 0, distance |-> 0, time |-> 0, idx |-> 0, R |-> ZeroM, t |-> ZeroV, ret |-> FALSE, entry_time |-> 0, connected26 |-> FALSE]

(* ------------------------- device-side contents ----------------------- *)
\* device::initVolume: every voxel unobserved
initVolume == <<>>

\* device::initColorVolume on an allocated colour volume
initColorVolume == [empty |-> FALSE, updates |-> <<>>]

\* a DeviceArray2D that was never created
EmptyColorVolume == [empty |-> TRUE, updates |-> <<>>]

\* vmaps_g_prev_ / nmaps_g_prev_ as allocated by allocateBufffers
UnwrittenMaps == [by |-> "allocateBufffers", R |-> ZeroM, t |-> ZeroV]

(* ---------------------------- pure helpers ---------------------------- *)
\* the camera left at the centre of the volume
DefaultInitTcam_Centered(vs) == [i \in 1..3 |-> vs[i] \div 2]

\* init_tcam_ = volume_size_ * 0.5f - Vector3f (0, 0, volume_size_ (2) / 2 * 1.2f)
DefaultInitTcam(vs) ==
  VecSub([i \in 1..3 |-> vs[i] \div 2], <<0, 0, ((vs[3] \div 2) * 12) \div 10>>)

\* setTsdfTrancationDistance without the lower bound
TrancationDistance_NoClamp(distance, vs) == distance

\* the value setTsdfTrancationDistance stores in tranc_dist_
TrancationDistance(distance, vs) ==
  LET cx == vs[1] \div VOLUME_X
      cy == vs[2] \div VOLUME_Y
      cz == vs[3] \div VOLUME_Z
  IN  Max2(distance, (21 * Max2(cx, Max2(cy, cz))) \div 10)

\* 16 bits read as a short
Short(u) == IF u >= 32768 THEN u - 65536 ELSE u

\* the s with 2^-s <= a / DIVISOR < 2^(1-s), for 0 < a <= 32768
RECURSIVE Doublings(_)
Doublings(a) == IF a >= DIVISOR THEN 0 ELSE 1 + Doublings(2 * a)

\* (float)(x) / DIVISOR for a short x: the IEEE-754 single nearest to the
\* quotient, as the short2 lying over it reads its bits (x: low 16 bits of
\* the significand; y: sign, exponent and the high 7 bits of the significand)
FloatDiv(x) ==
  IF x = 0 THEN [x |-> 0, y |-> 0]
  ELSE LET a == Abs(x)
           s == Doublings(a)
           n == a * (2 ^ s) - DIVISOR
           hi7 == (n * 128) \div DIVISOR
           r == (n * 128) % DIVISOR
           q == (r * 65536) \div DIVISOR
           lo == IF 2 * ((r * 65536) % DIVISOR) > DIVISOR THEN q + 1 ELSE q
       IN  [x |-> Short(lo), y |-> Short((IF x < 0 THEN 32768 ELSE 0) + (127 - s) * 128 + hi7)]

\* pcl::device::valid_host
valid_host(det) == ~det.nan

\* fabs (det) < 1e-15 || !pcl::device::valid_host (det)
IcpFails(det) == (~det.nan /\ Abs(det.v) < DetThreshold) \/ ~valid_host(det)

\* what the nullspace check makes of det: "qnan" is the diagnostic printed
DetNote(det) ==
  IF ~IcpFails(det) THEN "ok" ELSE IF ~valid_host(det) THEN "qnan" ELSE "singular"

\* Rinc = AngleAxisf (gamma, UnitZ) * AngleAxisf (beta, UnitY) * AngleAxisf (alpha, UnitX)
Rinc(result) ==
  MatMul(MatMul(AngleAxisZ(result.gamma), AngleAxisY(result.beta)), AngleAxisX(result.alpha))

\* every level runs one iteration more than icp_iterations_ asks for
NextIter_OneMore(l, i) ==
  IF i + 1 <= icp_iterations_[l] THEN <<l, i + 1>> ELSE <<l - 1, 0>>

\* position of the ICP loops after the body of iteration (l, i) has run
NextIter(l, i) ==
  IF i + 1 < icp_iterations_[l] THEN <<l, i + 1>> ELSE <<l - 1, 0>>


(* ---------------------------- construction ---------------------------- *)
\* KinfuTracker::KinfuTracker: the setters, then allocateBufffers and reset
Constructed ==
  /\ volume_size_ = <<VOLUME_SIZE, VOLUME_SIZE, VOLUME_SIZE>>
  /\ init_Rcam_ = Identity
  /\ init_tcam_ = DefaultInitTcam(<<VOLUME_SIZE, VOLUME_SIZE, VOLUME_SIZE>>)
  /\ tranc_dist_ = TrancationDistance(default_tranc_dist, <<VOLUME_SIZE, VOLUME_SIZE, VOLUME_SIZE>>)
  /\ max_weight_ = 1
  /\ global_time_ = 0
  /\ rmats_ = <<Identity>>
  /\ tvecs_ = <<DefaultInitTcam(<<VOLUME_SIZE, VOLUME_SIZE, VOLUME_SIZE>>)>>
  /\ volume_ = initVolume
  /\ colors_volume_ = EmptyColorVolume
  /\ vmaps_g_prev_ = UnwrittenMaps
  /\ pc = "idle"
  /\ call = "none"
  /\ depth_raw = 0
  /\ Rcurr = ZeroM
  /\ tcurr = ZeroV
  /\ level_index = 0
  /\ iter = 0
  /\ moves = 0
  /\ res = FALSE
  /\ last_call = NoCall
  /\ trace = <<>>

\* a tracker whose volume contents are not looked at and on which no
\* read-back has been made
Init ==
  /\ Constructed
  /\ voxels = <<>>
  /\ volume = <<>>
  /\ weights = <<>>
  /\ cloud = <<>>

NoLocals ==
  /\ call' = "none"
  /\ depth_raw' = 0
  /\ Rcurr' = ZeroM
  /\ tcurr' = ZeroV
  /\ level_index' = 0
  /\ iter' = 0
  /\ moves' = 0
  /\ res' = FALSE

(* ------------------------------ setters ------------------------------- *)
setVolumeSize(volume_size) ==
  /\ pc = "idle"
  /\ UNCHANGED host
  /\ volume_size_' = volume_size
  /\ last_call' = [NoCall EXCEPT !.op = "setVolumeSize"]
  /\ trace' = <<>>
  /\ UNCHANGED <<init_Rcam_, init_tcam_, tranc_dist_, max_weight_, session, pc, locals>>

setInitalCameraPose(pose) ==
  /\ pc = "idle"
  /\ UNCHANGED host
  /\ init_Rcam_' = pose.R
  /\ init_tcam_' = pose.t
  /\ last_call' = [NoCall EXCEPT !.op = "setInitalCameraPose", !.R = pose.R, !.t = pose.t]
  /\ trace' = <<>>
  /\ UNCHANGED <<volume_size_, tranc_dist_, max_weight_, session, pc, locals>>

setTsdfTrancationDistance(distance) ==
  /\ pc = "idle"
  /\ UNCHANGED host
  /\ tranc_dist_' = TrancationDistance(distance, volume_size_)
  /\ last_call' = [NoCall EXCEPT !.op = "setTsdfTrancationDistance", !.distance = distance]
  /\ trace' = <<>>
  /\ UNCHANGED <<volume_size_, init_Rcam_, init_tcam_, max_weight_, session, pc, locals>>

initColorIntegration(max_weight) ==
  /\ pc = "idle"
  /\ UNCHANGED host
  /\ max_weight_' = IF max_weight < 0 THEN max_weight_ ELSE max_weight
  /\ colors_volume_' = initColorVolume
  /\ last_call' = [NoCall EXCEPT !.op = "initColorIntegration"]
  /\ trace' = <<Ev("initColorVolume")>>
  /\ UNCHANGED <<volume_size_, init_Rcam_, init_tcam_, tranc_dist_, global_time_, rmats_, tvecs_, volume_, vmaps_g_prev_, pc, locals>>

(* -------------------------------- reset ------------------------------- *)
\* reset that forgets to re-initialise the volume
ResetState_KeepsVolume ==
  /\ global_time_' = 0
  /\ rmats_' = <<init_Rcam_>>
  /\ tvecs_' = <<init_tcam_>>
  /\ volume_' = volume_
  /\ colors_volume_' = IF ~colors_volume_.empty THEN initColorVolume ELSE colors_volume_

\* the assignments of KinfuTracker::reset
ResetState ==
  /\ global_time_' = 0
  /\ rmats_' = <<init_Rcam_>>
  /\ tvecs_' = <<init_tcam_>>
  /\ volume_' = initVolume
  /\ colors_volume_' = IF ~colors_volume_.empty THEN initColorVolume ELSE colors_volume_

\* the kernels KinfuTracker::reset launches
ResetTrace ==
  IF ~colors_volume_.empty THEN <<Ev("initVolume"), Ev("initColorVolume")>> ELSE <<Ev("initVolume")>>

reset ==
  /\ pc = "idle"
  /\ UNCHANGED host
  /\ ResetState
  /\ last_call' = [NoCall EXCEPT !.op = "reset"]
  /\ trace' = ResetTrace
  /\ UNCHANGED <<config, vmaps_g_prev_, pc, locals>>

(* ---------------------------- getCameraPose --------------------------- *)
\* the index getCameraPose reads rmats_ and tvecs_ at (0-based)
CameraPoseIndex(time, size) ==
  IF time > size \/ time < 0 THEN size - 1 ELSE time

\* a read at size () is outside the vectors: it yields whatever the reserved
\* storage holds
getCameraPose(time) ==
  /\ pc = "idle"
  /\ UNCHANGED host
  /\ LET idx == CameraPoseIndex(time, Len(rmats_))
     IN  \E R \in (IF idx < Len(rmats_) THEN {rmats_[idx + 1]} ELSE StaleR) :
         \E t \in (IF idx < Len(tvecs_) THEN {tvecs_[idx + 1]} ELSE StaleT) :
           last_call' = [NoCall EXCEPT !.op = "getCameraPose", !.time = time, !.idx = idx, !.R = R, !.t = t]
  /\ trace' = <<>>
  /\ UNCHANGED <<config, session, pc, locals>>


(* ------------------------ operator() (depth) -------------------------- *)
\* Matrix3frm::inverse (): every pose of the model is orthogonal
Inverse(R) == Transpose(R)

\* one integrateVolume launch as the volume keeps it: the camera pose the
\* frame was fused with (the log of the call holds the frame)
Integration(R_inv, t) ==
  [R_inv |-> R_inv, t |-> t]

\* return (r) of operator() (depth): to the caller, or back into
\* operator() (depth, colors)
Return(r) ==
  IF call = "process_depth"
    THEN /\ pc' = "idle"
         /\ NoLocals
         /\ last_call' = [last_call EXCEPT !.ret = r]
    ELSE /\ pc' = "color"
         /\ res' = r
         /\ UNCHANGED <<call, depth_raw, last_call>>
         /\ Rcurr' = ZeroM
         /\ tcurr' = ZeroV
         /\ level_index' = 0
         /\ iter' = 0
         /\ moves' = 0

\* lines 238-258: re-clamp of tranc_dist_, bilateral filter, truncation,
\* pyramid, vertex and normal maps, sync
Preprocess(op, depth) ==
  /\ pc = "idle"
  /\ UNCHANGED host
  /\ tranc_dist_' = TrancationDistance(tranc_dist_, volume_size_)
  /\ trace' = <<[Ev("bilateralFilter") EXCEPT !.depth = depth], Ev("pyrDown"), Ev("createVMap"), Ev("computeNormalsEigen"), Ev("sync")>>
  /\ pc' = "branch"
  /\ call' = op
  /\ depth_raw' = depth
  /\ last_call' = [NoCall EXCEPT !.op = op, !.depth = depth, !.entry_time = global_time_]
  /\ UNCHANGED <<volume_size_, init_Rcam_, init_tcam_, max_weight_, global_time_, rmats_, tvecs_, volume_, colors_volume_, vmaps_g_prev_, Rcurr, tcurr, level_index, iter, moves, res>>

\* bool operator() (const DepthMap& depth_raw)
process_depth(depth) == Preprocess("process_depth", depth)

\* bool operator() (const DepthMap& depth, const View& colors), line 641
process_depth_and_color(depth) == Preprocess("process_depth_and_color", depth)

\* the first frame reported as tracked
Bootstrap_ReturnsTrue ==
  /\ pc = "branch"
  /\ UNCHANGED host
  /\ global_time_ = 0
  /\ volume_' = Append(volume_, Integration(Inverse(rmats_[1]), tvecs_[1]))
  /\ vmaps_g_prev_' = [by |-> "tranformMaps", R |-> rmats_[1], t |-> tvecs_[1]]
  /\ global_time_' = global_time_ + 1
  /\ trace' = trace \o <<[Ev("integrateVolume") EXCEPT !.depth = depth_raw, !.R = rmats_[1], !.t = tvecs_[1], !.tranc = tranc_dist_], Ev("tranformMaps"), Ev("++global_time_")>>
  /\ Return(TRUE)
  /\ UNCHANGED <<config, rmats_, tvecs_, colors_volume_>>

\* lines 261-281: the first frame of a session
Bootstrap ==
  /\ pc = "branch"
  /\ UNCHANGED host
  /\ global_time_ = 0
  /\ volume_' = Append(volume_, Integration(Inverse(rmats_[1]), tvecs_[1]))
  /\ vmaps_g_prev_' = [by |-> "tranformMaps", R |-> rmats_[1], t |-> tvecs_[1]]
  /\ global_time_' = global_time_ + 1
  /\ trace' = trace \o <<[Ev("integrateVolume") EXCEPT !.depth = depth_raw, !.R = rmats_[1], !.t = tvecs_[1], !.tranc = tranc_dist_], Ev("tranformMaps"), Ev("++global_time_")>>
  /\ Return(FALSE)
  /\ UNCHANGED <<config, rmats_, tvecs_, colors_volume_>>

\* lines 285-297: the previous pose is the initial guess
IcpBegin ==
  /\ pc = "branch"
  /\ UNCHANGED host
  /\ global_time_ # 0
  /\ Rcurr' = rmats_[(global_time_ - 1) + 1]
  /\ tcurr' = tvecs_[(global_time_ - 1) + 1]
  /\ level_index' = LEVELS - 1
  /\ iter' = 0
  /\ moves' = 0
  /\ pc' = "icp"
  /\ UNCHANGED <<config, session, call, depth_raw, res, last_call, trace>>

\* lines 312-357: one iteration of the inner loop
IcpIteration ==
  /\ pc = "icp"
  /\ UNCHANGED host
  /\ \E det \in Dets, result \in Results :
       LET launched == Append(trace, [Ev("estimateCombined") EXCEPT !.level = level_index, !.iter = iter, !.note = DetNote(det)])
           next == NextIter(level_index, iter)
       IN  IF IcpFails(det)
             THEN /\ result = ZeroResult
                  /\ ResetState
                  /\ trace' = launched \o ResetTrace
                  /\ Return(FALSE)
                  /\ UNCHANGED <<config, vmaps_g_prev_>>
             ELSE /\ result = ZeroResult \/ moves < MaxMoves
                  /\ global_time_ < MaxTime
                  /\ tcurr' = VecAdd(MatVec(Rinc(result), tcurr), result.tinc)
                  /\ Rcurr' = MatMul(Rinc(result), Rcurr)
                  /\ moves' = IF result = ZeroResult THEN moves ELSE moves + 1
                  /\ level_index' = next[1]
                  /\ iter' = next[2]
                  /\ pc' = IF next[1] >= 0 THEN "icp" ELSE "save"
                  /\ trace' = launched
                  /\ UNCHANGED <<config, session, call, depth_raw, res, last_call>>

\* the tracked pose is not saved
SaveTransform_NoPush ==
  /\ pc = "save"
  /\ UNCHANGED host
  /\ trace' = Append(trace, [Ev("push_back") EXCEPT !.R = Rcurr, !.t = tcurr])
  /\ pc' = "integrate"
  /\ UNCHANGED <<config, session, locals, last_call>>

\* lines 360-362: save tranform
SaveTransform ==
  /\ pc = "save"
  /\ UNCHANGED host
  /\ rmats_' = Append(rmats_, Rcurr)
  /\ tvecs_' = Append(tvecs_, tcurr)
  /\ trace' = Append(trace, [Ev("push_back") EXCEPT !.R = Rcurr, !.t = tcurr])
  /\ pc' = "integrate"
  /\ UNCHANGED <<config, global_time_, volume_, colors_volume_, vmaps_g_prev_, locals, last_call>>

\* the frame is integrated with the previous pose
IntegrateVolume_PrevPose ==
  /\ pc = "integrate"
  /\ UNCHANGED host
  /\ volume_' = Append(volume_, Integration(Inverse(rmats_[global_time_]), tvecs_[global_time_]))
  /\ trace' = Append(trace, [Ev("integrateVolume") EXCEPT !.depth = depth_raw, !.R = rmats_[global_time_], !.t = tvecs_[global_time_], !.tranc = tranc_dist_])
  /\ pc' = "raycast"
  /\ UNCHANGED <<config, global_time_, rmats_, tvecs_, colors_volume_, vmaps_g_prev_, locals, last_call>>

\* lines 364-375: volume integration
IntegrateVolume ==
  /\ pc = "integrate"
  /\ UNCHANGED host
  /\ volume_' = Append(volume_, Integration(Inverse(Rcurr), tcurr))
  /\ trace' = Append(trace, [Ev("integrateVolume") EXCEPT !.depth = depth_raw, !.R = Rcurr, !.t = tcurr, !.tranc = tranc_dist_])
  /\ pc' = "raycast"
  /\ UNCHANGED <<config, global_time_, rmats_, tvecs_, colors_volume_, vmaps_g_prev_, locals, last_call>>

\* lines 377-389: ray casting, downsampling of the predicted pyramid, sync
Raycast ==
  /\ pc = "raycast"
  /\ UNCHANGED host
  /\ vmaps_g_prev_' = [by |-> "raycast", R |-> Rcurr, t |-> tcurr]
  /\ trace' = trace \o <<[Ev("raycast") EXCEPT !.R = Rcurr, !.t = tcurr, !.tranc = tranc_dist_], Ev("resizeVMap"), Ev("resizeNMap"), Ev("sync")>>
  /\ pc' = "finish"
  /\ UNCHANGED <<config, global_time_, rmats_, tvecs_, volume_, colors_volume_, locals, last_call>>

\* lines 391-392
Finish ==
  /\ pc = "finish"
  /\ UNCHANGED host
  /\ global_time_' = global_time_ + 1
  /\ trace' = Append(trace, Ev("++global_time_"))
  /\ Return(TRUE)
  /\ UNCHANGED <<config, rmats_, tvecs_, volume_, colors_volume_, vmaps_g_prev_>>

(* -------------------- operator() (depth, colors) ---------------------- *)
\* one updateColorVolume launch as the colour volume sees it
ColorUpdate(R_inv, t) ==
  [R_inv |-> R_inv, t |-> t]

\* the colour volume is updated whatever operator() (depth) returned
UpdateColors_Always ==
  /\ pc = "color"
  /\ UNCHANGED host
  /\ colors_volume_' = IF colors_volume_.empty THEN colors_volume_
                        ELSE [colors_volume_ EXCEPT !.updates = Append(@, ColorUpdate(Inverse(Last(rmats_)), Last(tvecs_)))]
  /\ trace' = Append(trace, [Ev("updateColorVolume") EXCEPT !.R = Last(rmats_), !.t = Last(tvecs_), !.tranc = tranc_dist_])
  /\ pc' = "idle"
  /\ last_call' = [last_call EXCEPT !.ret = res]
  /\ NoLocals
  /\ UNCHANGED <<config, global_time_, rmats_, tvecs_, volume_, vmaps_g_prev_>>

\* lines 643-657; a launch on a colour volume that was never created leaves
\* the host state as it is
UpdateColors ==
  /\ pc = "color"
  /\ UNCHANGED host
  /\ IF res
       THEN /\ colors_volume_' = IF colors_volume_.empty THEN colors_volume_
                                 ELSE [colors_volume_ EXCEPT !.updates = Append(@, ColorUpdate(Inverse(Last(rmats_)), Last(tvecs_)))]
            /\ trace' = Append(trace, [Ev("updateColorVolume") EXCEPT !.R = Last(rmats_), !.t = Last(tvecs_), !.tranc = tranc_dist_])
       ELSE UNCHANGED <<colors_volume_, trace>>
  /\ pc' = "idle"
  /\ last_call' = [last_call EXCEPT !.ret = res]
  /\ NoLocals
  /\ UNCHANGED <<config, global_time_, rmats_, tvecs_, volume_, vmaps_g_prev_>>

(* --------------------------- host read-backs -------------------------- *)
tracker == <<config, session, pc, locals>>

\* lines 428-454: the rays are cast into temporary maps with tranc_dist_ as
\* it stands
getImageFromPose(camera_pose) ==
  /\ pc = "idle"
  /\ UNCHANGED host
  /\ trace' = <<[Ev("raycast") EXCEPT !.R = camera_pose.R, !.t = camera_pose.t, !.tranc = tranc_dist_], Ev("generateImage")>>
  /\ last_call' = [NoCall EXCEPT !.op = "getImageFromPose"]
  /\ UNCHANGED tracker

\* lines 675-687: tmp is read from the word before the float is stored
getTsdfVolume ==
  /\ pc = "idle"
  /\ volume' = [i \in 1..Len(voxels) |-> FloatDiv(voxels[i].x)]
  /\ last_call' = [NoCall EXCEPT !.op = "getTsdfVolume"]
  /\ trace' = <<Ev("download")>>
  /\ UNCHANGED <<tracker, voxels, weights, cloud>>

\* what elem->y yields once volume[i] has been assigned: the store goes
\* through a float lvalue and the read through a short2 lying over the same
\* four bytes, so the read sees the high half of the float unless the
\* build, taking the two types not to alias, loaded y before the store
WeightRead(word) == {FloatDiv(word.x).y, word.y}

\* lines 690-705
getTsdfVolumeAndWeighs ==
  /\ pc = "idle"
  /\ volume' = [i \in 1..Len(voxels) |-> FloatDiv(voxels[i].x)]
  /\ \E read \in [1..Len(voxels) -> UNION {WeightRead(w) : w \in Words}] :
       /\ \A i \in 1..Len(voxels) : read[i] \in WeightRead(voxels[i])
       /\ weights' = read
  /\ last_call' = [NoCall EXCEPT !.op = "getTsdfVolumeAndWeighs"]
  /\ trace' = <<Ev("download")>>
  /\ UNCHANGED <<tracker, voxels, cloud>>

(* ------------------------ getCloudFromVolumeHost ---------------------- *)
\* #define FETCH(x, y, z) volume_host[(x) + (y) * VOLUME_X + (z) * VOLUME_Y * VOLUME_X]
FETCH(x, y, z) == voxels[((x) + (y) * GridX + (z) * GridY * GridX) + 1]

\* cell_size = volume_size_.array () / Array3f (VOLUME_X, VOLUME_Y, VOLUME_Z)
cell_size == <<volume_size_[1] \div GridX, volume_size_[2] \div GridY, volume_size_[3] \div GridZ>>

\* twice (Array3f (x, y, z) + 0.5f) * cell_size
Centre2(c) == [i \in 1..3 |-> (2 * c[i] + 1) * cell_size[i]]

\* the cells the three loops visit, in the order they visit them
HostCells ==
  [k \in 1..((GridX - 2) * (GridY - 2) * (GridZ - 1)) |->
     << 1 + (k - 1) \div ((GridY - 2) * (GridZ - 1)),
        1 + (((k - 1) \div (GridZ - 1)) % (GridY - 2)),
        (k - 1) % (GridZ - 1) >>]

\* the offsets (dx, dy, dz) a visited cell is compared across, in order
Neighbours(connected26) ==
  IF connected26
    THEN << <<-1, -1, 1>>, <<0, -1, 1>>, <<1, -1, 1>>,
            <<-1, 0, 1>>, <<0, 0, 1>>, <<1, 0, 1>>,
            <<-1, 1, 1>>, <<0, 1, 1>>, <<1, 1, 1>>,
            <<-1, 0, 0>>, <<-1, 1, 0>>, <<0, 1, 0>>, <<1, 1, 0>> >>
    ELSE << <<1, 0, 0>>, <<0, 1, 0>>, <<0, 0, 1>> >>

\* every (cell, offset) the loops reach, in order
Candidates(connected26) ==
  LET N == Neighbours(connected26)
  IN  [k \in 1..(Len(HostCells) * Len(N)) |->
         [c |-> HostCells[((k - 1) \div Len(N)) + 1], d |-> N[((k - 1) % Len(N)) + 1]]]

\* the neighbour's weight is not looked at
Emits_IgnoresWn(p) ==
  LET F == FETCH(p.c[1], p.c[2], p.c[3]).x
      W == FETCH(p.c[1], p.c[2], p.c[3]).y
      Fn == FETCH(p.c[1] + p.d[1], p.c[2] + p.d[2], p.c[3] + p.d[3]).x
  IN  /\ ~(W = 0 \/ F = DIVISOR)
      /\ ~(Fn = DIVISOR)
      /\ (F > 0 /\ Fn < 0) \/ (F < 0 /\ Fn > 0)

\* neither continue is taken and the sign test passes
Emits(p) ==
  LET F == FETCH(p.c[1], p.c[2], p.c[3]).x
      W == FETCH(p.c[1], p.c[2], p.c[3]).y
      Fn == FETCH(p.c[1] + p.d[1], p.c[2] + p.d[2], p.c[3] + p.d[3]).x
      Wn == FETCH(p.c[1] + p.d[1], p.c[2] + p.d[2], p.c[3] + p.d[3]).y
  IN  /\ ~(W = 0 \/ F = DIVISOR)
      /\ ~(Wn = 0 \/ Fn = DIVISOR)
      /\ (F > 0 /\ Fn < 0) \/ (F < 0 /\ Fn > 0)

\* point = (V * abs (Fn) + Vn * abs (F)) / (abs (F) + abs (Fn)), as the exact
\* quotient num / den (num and den carry the factor 2 of Centre2)
Point(p) ==
  LET F == FETCH(p.c[1], p.c[2], p.c[3]).x
      Fn == FETCH(p.c[1] + p.d[1], p.c[2] + p.d[2], p.c[3] + p.d[3]).x
      V == Centre2(p.c)
      Vn == Centre2(VecAdd(p.c, p.d))
  IN  [num |-> [i \in 1..3 |-> V[i] * Abs(Fn) + Vn[i] * Abs(F)], den |-> 2 * (Abs(F) + Abs(Fn))]

\* lines 475-595
getCloudFromVolumeHost(connected26) ==
  /\ pc = "idle"
  /\ cloud' = LET found == SelectSeq(Candidates(connected26), Emits)
              IN  [i \in 1..Len(found) |-> Point(found[i])]
  /\ last_call' = [NoCall EXCEPT !.op = "getCloudFromVolumeHost", !.connected26 = connected26]
  /\ trace' = <<Ev("download")>>
  /\ UNCHANGED <<tracker, voxels, volume, weights>>

\* the cells FETCH is applied to: every visited cell, and the neighbours of
\* those that pass the first test
HostReads(connected26) ==
  {HostCells[k] : k \in 1..Len(HostCells)}
    \cup {VecAdd(p.c, p.d) : p \in {q \in {Candidates(connected26)[k] : k \in 1..Len(Candidates(connected26))} :
                                      ~(FETCH(q.c[1], q.c[2], q.c[3]).y = 0 \/ FETCH(q.c[1], q.c[2], q.c[3]).x = DIVISOR)}}

(* --------------------------- specification ---------------------------- *)
Next ==
  \/ \E v \in VolumeSizes : setVolumeSize(v)
  \/ \E p \in CameraPoses : setInitalCameraPose(p)
  \/ \E d \in Distances : setTsdfTrancationDistance(d)
  \/ \E w \in MaxWeights : initColorIntegration(w)
  \/ reset
  \/ \E time \in (-1)..(MaxTime + TimeSlack) : getCameraPose(time)
  \/ \E camera_pose \in CameraPoses : getImageFromPose(camera_pose)
  \/ \E depth \in DepthMaps : process_depth(depth)
  \/ \E depth \in DepthMaps : process_depth_and_color(depth)
  \/ Bootstrap
  \/ IcpBegin
  \/ IcpIteration
  \/ SaveTransform
  \/ IntegrateVolume
  \/ Raycast
  \/ Finish
  \/ UpdateColors

Spec == Init /\ [][Next]_vars

\* the TSDF dumps of a tracker whose volume holds any words
InitTsdf ==
  /\ Constructed
  /\ voxels \in [1..DumpVoxels -> Words]
  /\ volume = <<>>
  /\ weights = <<>>
  /\ cloud = <<>>

NextTsdf ==
  \/ getTsdfVolume
  \/ getTsdfVolumeAndWeighs

SpecTsdf == InitTsdf /\ [][NextTsdf]_vars

\* the host-side extraction from a volume that is unobserved, or in front of
\* the surface, everywhere but in at most two voxels
InitCloud ==
  /\ Constructed
  /\ \E a, b \in 1..(GridX * GridY * GridZ), wa, wb \in CloudWords, rest \in Backgrounds :
       /\ a <= b
       /\ voxels = [i \in 1..(GridX * GridY * GridZ) |-> IF i = a THEN wa ELSE IF i = b THEN wb ELSE rest]
  /\ volume = <<>>
  /\ weights = <<>>
  /\ cloud = <<>>

NextCloud ==
  \E connected26 \in BOOLEAN : getCloudFromVolumeHost(connected26)

SpecCloud == InitCloud /\ [][NextCloud]_vars


(* ------------------------------ properties ---------------------------- *)
ProcessOps == {"process_depth", "process_depth_and_color"}

\* a call of operator() has returned to its caller and nothing was called since
Returned == pc = "idle" /\ last_call.op \in ProcessOps

\* the kernels and host steps named s in the log of the last call
Steps(s) == {i \in 1..Len(trace) : trace[i].step = s}

\* the nullspace check rejected an iteration of the last call
IcpFailed == \E i \in Steps("estimateCombined") : trace[i].note # "ok"

\* C1 (as stated): between calls the pose history has exactly k + 1 entries,
\* k = global_time_.
C1_LengthIsTimePlusOne ==
  pc = "idle" => (Len(rmats_) = global_time_ + 1 /\ Len(tvecs_) = global_time_ + 1)

\* C1 (amended): between calls the pose history has one entry while k <= 1
\* (construction, reset, bootstrap frame: the bootstrap frame increases k
\* without appending) and exactly k entries from then on.
C1_LengthIsTimeOrOne ==
  pc = "idle" =>
    /\ Len(rmats_) = Len(tvecs_)
    /\ global_time_ <= 1 => Len(rmats_) = 1
    /\ global_time_ >= 1 => Len(rmats_) = global_time_

C1_Witness ==
  /\ Returned
  /\ last_call.ret
  /\ global_time_ = 2
  /\ Len(rmats_) = 2

\* C2: in every state the first entry of the pose history is the configured
\* initial pose.
C2_FirstPoseIsInitPose ==
  rmats_[1] = init_Rcam_ /\ tvecs_[1] = init_tcam_

\* C3: operator() returns false exactly when it was entered with k = 0 or
\* its ICP failed; otherwise it returns true and has increased k by one.
C3_ReturnValue ==
  Returned =>
    /\ last_call.ret = FALSE <=> (last_call.entry_time = 0 \/ IcpFailed)
    /\ last_call.ret = TRUE => global_time_ = last_call.entry_time + 1

C3_Witness ==
  /\ Returned
  /\ last_call.ret
  /\ last_call.entry_time = 1
  /\ global_time_ = 2

\* C4: after a call whose ICP failed, the result is false, k = 0, the pose
\* history is [init pose], the volume (and an allocated colour volume) is
\* unobserved again, and the call appended no pose, integrated nothing and
\* cast no ray; k = 0 sends the next call into the bootstrap branch.
C4_FailureResets ==
  (Returned /\ IcpFailed) =>
    /\ last_call.ret = FALSE
    /\ global_time_ = 0
    /\ rmats_ = <<init_Rcam_>>
    /\ tvecs_ = <<init_tcam_>>
    /\ volume_ = initVolume
    /\ ~colors_volume_.empty => colors_volume_ = initColorVolume
    /\ Steps("push_back") = {}
    /\ Steps("integrateVolume") = {}
    /\ Steps("raycast") = {}
    /\ Steps("updateColorVolume") = {}

\* the failing frame arrives after two accepted frames, with a colour volume
\* allocated: reset re-initialises both volumes
C4_Witness ==
  /\ Returned
  /\ IcpFailed
  /\ last_call.entry_time = 2
  /\ ~colors_volume_.empty
  /\ Steps("initColorVolume") # {}

\* C5: right after setTsdfTrancationDistance (d), tranc_dist_ is the larger
\* of d and 2.1 * max (cell_size), cell_size = volume_size_ / VOLUME_{X,Y,Z}.
C5_TruncationClamp ==
  last_call.op = "setTsdfTrancationDistance" =>
    LET d == last_call.distance
        dims == <<VOLUME_X, VOLUME_Y, VOLUME_Z>>
    IN  /\ tranc_dist_ >= d
        /\ \A a \in 1..3 : 10 * dims[a] * tranc_dist_ >= 21 * volume_size_[a]
        /\ \/ tranc_dist_ = d
           \/ \E a \in 1..3 : 10 * dims[a] * tranc_dist_ = 21 * volume_size_[a]

\* d below the clamp for the 3 x 3 x 9 m box
C5_Witness ==
  /\ last_call.op = "setTsdfTrancationDistance"
  /\ last_call.distance < tranc_dist_
  /\ volume_size_[3] = 3 * VOLUME_SIZE


\* C6: getCameraPose (time) reads inside the pose history and returns
\* poses[time] for 0 <= time < size and the latest pose otherwise.
C6_PoseLookup ==
  last_call.op = "getCameraPose" =>
    LET size == Len(rmats_)
        expected == IF 0 <= last_call.time /\ last_call.time < size THEN last_call.time ELSE size - 1
    IN  /\ 0 <= last_call.idx
        /\ last_call.idx < size
        /\ last_call.R = rmats_[expected + 1]
        /\ last_call.t = tvecs_[expected + 1]

\* the steps of a call that change the tracker or launch integration, ICP,
\* ray casting or a colour update
MutatingSteps ==
  {"integrateVolume", "tranformMaps", "estimateCombined", "push_back", "raycast", "++global_time_", "initVolume", "updateColorVolume"}

\* C7: a call with invalid input (colours without initColorIntegration, or a
\* depth map that is not one of the rows x cols frames) changes nothing and
\* launches no integration, ICP, ray casting or colour update.
C7_InvalidInputNoMutation ==
  (/\ last_call.op \in ProcessOps
   /\ \/ last_call.depth \notin DepthMaps
      \/ last_call.op = "process_depth_and_color" /\ colors_volume_.empty) =>
    /\ global_time_ = last_call.entry_time
    /\ \A i \in 1..Len(trace) : trace[i].step \notin MutatingSteps

\* C8: operator() (depth, colors) returns what operator() (depth) returned
\* and launches updateColorVolume, with the last pose of the history, exactly
\* when that result is true; otherwise it leaves the colour volume as
\* operator() (depth) left it.
C8_ColorUpdateIffTracked ==
  [][pc = "color" =>
       /\ pc' = "idle"
       /\ last_call'.ret = res
       /\ last_call'.ret = (last_call.entry_time # 0 /\ ~IcpFailed)
       /\ UNCHANGED <<global_time_, rmats_, tvecs_, volume_, vmaps_g_prev_>>
       /\ res =>
            /\ trace' = Append(trace, [Ev("updateColorVolume") EXCEPT !.R = Last(rmats_), !.t = Last(tvecs_), !.tranc = tranc_dist_])
            /\ \E i \in Steps("push_back") : trace[i].R = Last(rmats_) /\ trace[i].t = Last(tvecs_)
            /\ ~colors_volume_.empty =>
                 /\ Len(colors_volume_'.updates) = Len(colors_volume_.updates) + 1
                 /\ Last(colors_volume_'.updates) = [R_inv |-> Transpose(Last(rmats_)), t |-> Last(tvecs_)]
       /\ ~res =>
            /\ trace' = trace
            /\ colors_volume_' = colors_volume_
            /\ (IcpFailed /\ ~colors_volume_.empty) => colors_volume_ = initColorVolume
  ]_vars

\* a tracked frame with colours: the frame moved the camera and the colour
\* volume received the update
C8_Witness ==
  /\ Returned
  /\ last_call.op = "process_depth_and_color"
  /\ last_call.ret
  /\ ~colors_volume_.empty
  /\ Len(colors_volume_.updates) = 1
  /\ Last(rmats_) # rmats_[1]

\* C9 (as stated): a freshly constructed tracker has identity rotation and
\* translation (vol/2, vol/2, -0.6 * vol), also as poses[0].
C9_InitialPoseAsStated ==
  last_call.op = "KinfuTracker" =>
    /\ init_Rcam_ = Identity
    /\ 2 * init_tcam_[1] = VOLUME_SIZE
    /\ 2 * init_tcam_[2] = VOLUME_SIZE
    /\ 10 * init_tcam_[3] = -6 * VOLUME_SIZE
    /\ rmats_ = <<init_Rcam_>>
    /\ tvecs_ = <<init_tcam_>>

\* C9 (amended): a freshly constructed tracker has identity rotation and
\* translation (vol/2, vol/2, vol/2 - 0.6 * vol) = (1.5, 1.5, -0.3) m, also
\* as poses[0].
C9_InitialPose ==
  last_call.op = "KinfuTracker" =>
    /\ init_Rcam_ = Identity
    /\ 2 * init_tcam_[1] = VOLUME_SIZE
    /\ 2 * init_tcam_[2] = VOLUME_SIZE
    /\ 10 * init_tcam_[3] = 5 * VOLUME_SIZE - 6 * VOLUME_SIZE
    /\ 10 * init_tcam_[3] = -3 * UnitsPerMetre
    /\ rmats_ = <<init_Rcam_>>
    /\ tvecs_ = <<init_tcam_>>

C9_Witness ==
  /\ last_call.op = "KinfuTracker"
  /\ pc = "idle"
  /\ global_time_ = 0
  /\ volume_size_ = <<VOLUME_SIZE, VOLUME_SIZE, VOLUME_SIZE>>
  /\ tvecs_[1][3] < 0


\* the log of a tracked call from the pose append on, for the pose (R, t)
TrackedTail(R, t) ==
  << [Ev("push_back") EXCEPT !.R = R, !.t = t],
     [Ev("integrateVolume") EXCEPT !.depth = last_call.depth, !.R = R, !.t = t, !.tranc = tranc_dist_],
     [Ev("raycast") EXCEPT !.R = R, !.t = t, !.tranc = tranc_dist_],
     Ev("resizeVMap"), Ev("resizeNMap"), Ev("sync"), Ev("++global_time_") >>

\* C10: a tracked call runs preprocessing up to its sync, then the ICP
\* iterations from the coarsest level down to the last iteration of level 0,
\* then appends the pose, integrates the raw depth with that pose, casts rays
\* with that pose, downsamples, syncs and only then increases k; while ICP
\* is running no pose has been appended.
C10_StepOrder ==
  /\ pc \in {"icp", "save"} => (Steps("push_back") = {} /\ Len(rmats_) = global_time_)
  /\ (Returned /\ last_call.ret) =>
       LET n == Cardinality(Steps("estimateCombined"))
       IN  /\ n >= 1
           /\ Len(trace) >= 5 + n + 7
           /\ trace[1].step = "bilateralFilter" /\ trace[1].depth = last_call.depth
           /\ trace[5].step = "sync"
           /\ \A i \in 1..5 : trace[i].step \notin MutatingSteps
           /\ \A i \in 6..(5 + n) : trace[i].step = "estimateCombined" /\ trace[i].note = "ok"
           /\ trace[6].level = LEVELS - 1 /\ trace[6].iter = 0
           /\ \A i \in 6..(4 + n) :
                \/ trace[i + 1].level = trace[i].level /\ trace[i + 1].iter = trace[i].iter + 1
                \/ trace[i + 1].level = trace[i].level - 1 /\ trace[i + 1].iter = 0
           /\ trace[5 + n].level = 0 /\ trace[5 + n].iter = icp_iterations_[0] - 1
           /\ SubSeq(trace, 6 + n, 12 + n) = TrackedTail(Last(rmats_), Last(tvecs_))
           /\ Last(volume_) = [R_inv |-> Transpose(Last(rmats_)), t |-> Last(tvecs_)]
           /\ \A i \in (13 + n)..Len(trace) : trace[i].step = "updateColorVolume"

\* a tracked frame on which ICP moved the camera
C10_Witness ==
  /\ Returned
  /\ last_call.ret
  /\ Len(rmats_) = 2
  /\ rmats_[2] # rmats_[1]
  /\ Cardinality(Steps("estimateCombined")) > LEVELS


\* the estimateCombined launches of the last call that ran on pyramid level l
IcpLaunches(l) == {i \in Steps("estimateCombined") : trace[i].level = l}

\* C11: on a frame that goes through ICP the first iteration starts from the
\* last pose of the history, which is the entry at 0-based index k - 1, on
\* the coarsest level; the levels are visited from LEVELS - 1 down to 0; a
\* tracked call has run 4, 5 and 10 iterations on levels 2, 1 and 0, 19 in
\* all, and a call that ICP failed has run at least one and at most 19.
C11_IcpSchedule ==
  /\ (pc = "icp" /\ Steps("estimateCombined") = {}) =>
       /\ Len(rmats_) = global_time_
       /\ Rcurr = Last(rmats_) /\ tcurr = Last(tvecs_)
       /\ level_index = LEVELS - 1 /\ iter = 0
  /\ \A i, j \in Steps("estimateCombined") : i < j => trace[i].level >= trace[j].level
  /\ Cardinality(Steps("estimateCombined")) <= 19
  /\ (Returned /\ last_call.ret) =>
       /\ Cardinality(IcpLaunches(2)) = 4
       /\ Cardinality(IcpLaunches(1)) = 5
       /\ Cardinality(IcpLaunches(0)) = 10
       /\ Cardinality(Steps("estimateCombined")) = 19
  /\ (Returned /\ IcpFailed) => Cardinality(Steps("estimateCombined")) >= 1

\* a tracked frame of operator() (depth) after its 19 iterations
C11_Witness ==
  /\ Returned
  /\ last_call.op = "process_depth"
  /\ last_call.ret
  /\ Cardinality(IcpLaunches(0)) = 10
  /\ Cardinality(Steps("estimateCombined")) = 19


\* C12: after getTsdfVolumeAndWeighs both vectors have one entry per voxel,
\* volume[i] is the float of the tsdf half of voxel i divided by DIVISOR and
\* weights[i] is the weight half of the word of voxel i as the volume held it.
C12_DumpedWeights ==
  last_call.op = "getTsdfVolumeAndWeighs" =>
    /\ Len(volume) = Len(voxels)
    /\ Len(weights) = Len(voxels)
    /\ \A i \in 1..Len(voxels) :
         /\ volume[i] = FloatDiv(voxels[i].x)
         /\ weights[i] = voxels[i].y


\* a voxel that was observed: w > 0 and tsdf # DIVISOR
Observed(w) == w.y > 0 /\ w.x # DIVISOR

GridCells == (0..(GridX - 1)) \X (0..(GridY - 1)) \X (0..(GridZ - 1))

Axes == {<<1, 0, 0>>, <<0, 1, 0>>, <<0, 0, 1>>}

\* the pairs of axis-adjacent observed voxels of opposite sign whose first
\* cell lies in the set of cells C
Crossings(C) ==
  {p \in [c : C, d : Axes] :
     /\ VecAdd(p.c, p.d) \in GridCells
     /\ Observed(FETCH(p.c[1], p.c[2], p.c[3]))
     /\ Observed(FETCH(p.c[1] + p.d[1], p.c[2] + p.d[2], p.c[3] + p.d[3]))
     /\ FETCH(p.c[1], p.c[2], p.c[3]).x * FETCH(p.c[1] + p.d[1], p.c[2] + p.d[2], p.c[3] + p.d[3]).x < 0}

\* the point at fraction |F| / (|F| + |Fn|) of the way from the centre of
\* p.c to the centre of its neighbour, as a quotient with the scale of Point
Interpolated(p) ==
  LET F == Abs(FETCH(p.c[1], p.c[2], p.c[3]).x)
      Fn == Abs(FETCH(p.c[1] + p.d[1], p.c[2] + p.d[2], p.c[3] + p.d[3]).x)
      V == Centre2(p.c)
      Vn == Centre2(VecAdd(p.c, p.d))
  IN  [num |-> [i \in 1..3 |-> V[i] * (F + Fn) + (Vn[i] - V[i]) * F], den |-> 2 * (F + Fn)]

\* the cloud holds one point for each pair of P, placed by Interpolated, and
\* nothing else
CloudIs(P) ==
  /\ Len(cloud) = Cardinality(P)
  /\ \A p \in P : Cardinality({i \in 1..Len(cloud) : cloud[i] = Interpolated(p)}) = 1
  /\ \A i \in 1..Len(cloud) : \E p \in P : cloud[i] = Interpolated(p)

\* the cells with 1 <= x <= VOLUME_X - 2, 1 <= y <= VOLUME_Y - 2 and
\* 0 <= z <= VOLUME_Z - 2
InnerCells == (1..(GridX - 2)) \X (1..(GridY - 2)) \X (0..(GridZ - 2))

\* C13 (as stated): the 6-connected host extraction emits exactly one point
\* for every pair of axis-adjacent observed voxels of opposite sign anywhere
\* in the grid, at fraction |F| / (|F| + |Fn|) from the cell centre to the
\* neighbour centre, and no other point; every read is inside the grid.
C13_CrossingsAnywhere ==
  (last_call.op = "getCloudFromVolumeHost" /\ ~last_call.connected26) =>
    /\ CloudIs(Crossings(GridCells))
    /\ HostReads(FALSE) \subseteq GridCells

\* C13 (amended): the 6-connected host extraction emits exactly one point
\* for every pair of a cell with 1 <= x <= VOLUME_X - 2, 1 <= y <=
\* VOLUME_Y - 2, 0 <= z <= VOLUME_Z - 2 and its +x, +y or +z neighbour that
\* are both observed and of opposite sign, at fraction |F| / (|F| + |Fn|)
\* from the cell centre to the neighbour centre, and no other point; every
\* read is inside the grid.
C13_CrossingsOfInnerCells ==
  (last_call.op = "getCloudFromVolumeHost" /\ ~last_call.connected26) =>
    /\ CloudIs(Crossings(InnerCells))
    /\ HostReads(FALSE) \subseteq GridCells

\* a 6-connected extraction that emitted several points while crossings
\* that start in a border cell went unreported
C13_Witness ==
  /\ last_call.op = "getCloudFromVolumeHost"
  /\ ~last_call.connected26
  /\ Len(cloud) >= 2
  /\ Cardinality(Crossings(GridCells)) > Len(cloud)


\* C14: every integrateVolume and raycast launch, in operator() and in
\* getImageFromPose, is handed a tranc_dist of at least 2.1 * max (cell_size)
\* for the volume size in force.
C14_TruncationAtUse ==
  \A i \in Steps("integrateVolume") \cup Steps("raycast") :
    LET dims == <<VOLUME_X, VOLUME_Y, VOLUME_Z>>
    IN  \A a \in 1..3 : 10 * dims[a] * trace[i].tranc >= 21 * volume_size_[a]

====
